---- MODULE Spec2Model ----
(***************************************************************************)
(* bookshelf-entity: entity-based serialization of Bookshelf models and    *)
(* collections.                                                            *)
(*                                                                         *)
(* src/unnamed/part_001 is the plugin with present/render/represent, the   *)
(* recursive safety check and the relation auto-detection.  src/index.js   *)
(* (lines 115-284) is the plugin variant that patches toJSON on models and *)
(* collections and guards the recursion with options.entityRoot.           *)
(*                                                                         *)
(* The host (Bookshelf) is modelled through what the plugin reads of it:   *)
(* model.relations, model[key], collection.models, load and the base       *)
(* toJSON.  json-entity's Entity.represent is modelled from the            *)
(* specification (sections 4.2 and 4.3).                                   *)
(***************************************************************************)
EXTENDS Integers, Sequences, FiniteSets, TLC

VARIABLES
    object,         \* the host object the operations are invoked on (this)
    defaultEntity,  \* defaultEntity of the model class: <<>> or <<entity>>
    entitySafeMode, \* entitySafeMode of the model class
    pc,             \* "idle" before the invocation, "done" after it, and the
                    \* position of a present invocation in between
    inv,            \* the invocation: operation, caller's options, resolved entity
    relations,      \* result of detectRelationsToLoad in a present invocation
    result,         \* what the invocation returned, threw or settled with
    trace,          \* collaborators called by the invocation, in call order
    other           \* a second present invocation, on another model, that
                    \* overlaps the first: its object, position, detected
                    \* relations and result

vars == <<object, defaultEntity, entitySafeMode, pc, inv, relations, result, trace, other>>

-----------------------------------------------------------------------------
(* Bounds of the model *)

\* longest collection (root collection or to-many relation)
MaxColl == 2

-----------------------------------------------------------------------------
(* Host objects *)

\* relation names; "a" is a to-one relation, "b" a to-many relation
Keys == {"a", "b"}
KeyOrder == <<"a", "b">>
ToMany == {"b"}

\* attribute names of every model; no entity of the model exposes "secret"
AttrOrder == <<"id", "secret">>

Undefined == [kind |-> "undefined"]

\* A Bookshelf model as the plugin reads it: rel is model.relations (the
\* loaded relations), has is the set of keys k for which model[k] is truthy
\* (the relation methods of the class).
Model(has, rel) == [kind |-> "model", has |-> has, rel |-> rel]

\* A Bookshelf collection: it has .models and no .relations
Collection(models) == [kind |-> "collection", models |-> models]

\* Object.keys(model.relations), as a sequence
RECURSIVE KeysFrom(_, _)
KeysFrom(rel, i) ==
    IF i > Len(KeyOrder) THEN <<>>
    ELSE (IF KeyOrder[i] \in DOMAIN rel THEN <<KeyOrder[i]>> ELSE <<>>)
         \o KeysFrom(rel, i + 1)

\* Object.keys(model.relations || {}): a collection has no relations
RelationKeys(model) ==
    IF model.kind = "model" THEN KeysFrom(model.rel, 1) ELSE <<>>

SeqsUpTo(S, n) == UNION {[1..m -> S] : m \in 0..n}

\* typed relation values: a model under a to-one key, a collection under a
\* to-many key
RelValues(k, models) ==
    IF k \in ToMany
    THEN {Collection(ms) : ms \in SeqsUpTo(models, MaxColl)}
    ELSE models

\* a model with nothing loaded
Bare(has) == Model(has, <<>>)

\* related objects two levels below the root
LeafModels == {Bare(Keys)}

\* related objects one level below the root: only relation "a" is loaded
\* at this level
RelatedModels ==
    {Model(Keys, rel) : rel \in {<<>>} \cup {[k \in {"a"} |-> m] : m \in LeafModels}}

SubModels == {Bare({})} \cup RelatedModels

RootModels ==
    UNION {UNION {{Model(has, rel) :
                     rel \in {f \in [loaded -> SubModels \cup RelValues("b", RelatedModels)] :
                                \A k \in loaded :
                                    f[k] \in (IF k \in ToMany
                                              THEN RelValues(k, RelatedModels)
                                              ELSE SubModels)}} :
                  loaded \in SUBSET has} :
           has \in SUBSET Keys}

RootCollections == {Collection(ms) : ms \in SeqsUpTo(SubModels, MaxColl)}

Objects == RootModels \cup RootCollections

-----------------------------------------------------------------------------
(* Entities (json-entity): an entity is its properties, in order *)

Plain(k) == [key |-> k, using |-> <<>>]
Using(k, e) == [key |-> k, using |-> <<e>>]

\* the rules an entity may hold for key k: none, exposed, exposed using e
Rules(k, subs) == {<<>>, <<Plain(k)>>} \cup {<<Using(k, e)>> : e \in subs}

LeafEntity == <<Plain("id")>>

NestedEntities == {LeafEntity \o ra : ra \in Rules("a", {LeafEntity})}

\* entities that expose no attribute: a model without the relation has
\* nothing to show
SparseEntities == {<<Using("a", LeafEntity)>>, <<Using("b", LeafEntity)>>}

RootEntities ==
    {LeafEntity \o ra \o rb : ra \in Rules("a", NestedEntities),
                              rb \in Rules("b", NestedEntities)}
    \cup SparseEntities

\* an optional entity: <<>> is undefined/null
Opt(S) == {<<>>} \cup {<<e>> : e \in S}

-----------------------------------------------------------------------------
(* performSafetyCheck: <<>> when it returns, <<relation>> when it throws   *)
(* the error naming relation                                               *)

RECURSIVE performSafetyCheck(_, _)
RECURSIVE SafetyCheckFrom(_, _, _, _, _)

\* the two nested forEach loops, from relation i and property j on
SafetyCheckFrom(entity, model, rels, i, j) ==
    IF i > Len(rels) THEN <<>>
    ELSE IF j > Len(entity) THEN SafetyCheckFrom(entity, model, rels, i + 1, 1)
    ELSE LET relation == rels[i]
             property == entity[j]
         IN  IF relation = property.key
             THEN IF property.using = <<>>
                  THEN <<relation>>
                  ELSE LET nested == performSafetyCheck(property.using[1],
                                                        model.rel[relation])
                       IN  IF nested # <<>> THEN nested
                           ELSE SafetyCheckFrom(entity, model, rels, i, j + 1)
             ELSE SafetyCheckFrom(entity, model, rels, i, j + 1)

\* a check that stops after the first loaded relation
performSafetyCheck_FirstRelation(entity, model) ==
    SafetyCheckFrom(entity, model,
                    IF RelationKeys(model) = <<>> THEN <<>>
                    ELSE <<Head(RelationKeys(model))>>,
                    1, 1)

performSafetyCheck(entity, model) ==
    SafetyCheckFrom(entity, model, RelationKeys(model), 1, 1)

-----------------------------------------------------------------------------
(* detectRelationsToLoad.  A path is the sequence of its keys: "a.b" is    *)
(* <<"a", "b">>, and the prefix "a." is <<"a">>.                           *)

\* has(model.relations, key): false when model.relations is undefined
HasRelation(model, key) == model.kind = "model" /\ key \in DOMAIN model.rel

\* model[key] is truthy
Member(model, key) == model.kind = "model" /\ key \in model.has

Detected(paths) == [threw |-> "", paths |-> paths]
DetectThrew == [threw |-> "TypeError", paths |-> <<>>]

RECURSIVE detectRelationsToLoad(_, _, _)
RECURSIVE DetectFrom(_, _, _, _)

\* the reduce over entity.properties, from property j on
DetectFrom(entity, model, prefix, j) ==
    IF j > Len(entity) THEN Detected(<<>>)
    ELSE LET key == entity[j].key
             using == entity[j].using
         IN  IF using = <<>> THEN DetectFrom(entity, model, prefix, j + 1)
             ELSE LET pushed ==
                          IF model.kind = "undefined"
                             \/ (~HasRelation(model, key) /\ Member(model, key))
                          THEN <<prefix \o <<key>>>>
                          ELSE <<>>
                  IN  \* model && model.relations[key]: a collection has no
                      \* relations, reading [key] of undefined throws
                      IF model.kind = "collection" THEN DetectThrew
                      ELSE LET sub == IF HasRelation(model, key)
                                      THEN model.rel[key]
                                      ELSE Undefined
                               nested == detectRelationsToLoad(using, sub,
                                                               prefix \o <<key>>)
                               rest == DetectFrom(entity, model, prefix, j + 1)
                           IN  IF nested.threw # "" \/ rest.threw # ""
                               THEN DetectThrew
                               ELSE Detected(pushed \o nested.paths \o rest.paths)

\* entity is <<>> (undefined) or <<e>>
detectRelationsToLoad(entity, model, prefix) ==
    IF entity = <<>> THEN Detected(<<>>)
    ELSE LET r == DetectFrom(entity[1], model, prefix, 1)
         IN  IF r.threw # "" THEN r
             ELSE Detected(SelectSeq(r.paths, LAMBDA p : p # <<>>))

-----------------------------------------------------------------------------
(* Serialized values *)

JUndefined == [t |-> "undefined"]
JString(s) == [t |-> "string", s |-> s]
\* kv: the own properties in order, each [k |-> name, v |-> value]
JObject(kv) == [t |-> "object", kv |-> kv]
JArray(items) == [t |-> "array", items |-> items]

\* the errors an invocation can end with
UnsafeRelationError(relation) == [t |-> "error", name |-> "Error", relation |-> relation]
TypeError == [t |-> "error", name |-> "TypeError", relation |-> ""]
\* the errors the host's load fails with
HostLoadErrors == {"ETIMEDOUT", "ER_NO_SUCH_TABLE"}
HostLoadError(e) == [t |-> "error", name |-> e, relation |-> ""]

\* data[key], undefined when data has no such property
RECURSIVE LookupFrom(_, _, _)
LookupFrom(kv, key, i) ==
    IF i > Len(kv) THEN JUndefined
    ELSE IF kv[i].k = key THEN kv[i].v
    ELSE LookupFrom(kv, key, i + 1)

Lookup(data, key) ==
    IF data.t = "object" THEN LookupFrom(data.kv, key, 1) ELSE JUndefined

\* the model's attributes, each valued by its own name
AttributePairs == [i \in 1..Len(AttrOrder) |-> [k |-> AttrOrder[i], v |-> JString(AttrOrder[i])]]

\* the base toJSON of the host (ModelBase.prototype.toJSON and
\* CollectionBase.prototype.toJSON) where the plugin does not patch toJSON:
\* the attributes, then every loaded relation serialized in turn unless
\* options.shallow
RECURSIVE BaseToJSON(_, _)
BaseToJSON(obj, shallow) ==
    IF obj.kind = "collection"
    THEN JArray([i \in 1..Len(obj.models) |-> BaseToJSON(obj.models[i], shallow)])
    ELSE LET rels == IF shallow THEN <<>> ELSE RelationKeys(obj)
         IN  JObject(AttributePairs
                     \o [i \in 1..Len(rels) |->
                           [k |-> rels[i], v |-> BaseToJSON(obj.rel[rels[i]], FALSE)]])

\* an empty or otherwise falsy representation
IsEmptyValue(v) == v.t = "undefined" \/ (v.t = "object" /\ v.kv = <<>>)

\* Entity.represent of json-entity: every rule in declaration order; a rule
\* with using represents the related value with the nested entity, a plain
\* rule copies the attribute; undefined values are omitted; for a sequence
\* each element is represented and the empty ones are dropped
RECURSIVE EntityRepresent(_, _)
RECURSIVE EntityRulesFrom(_, _, _)

EntityRulesFrom(entity, data, j) ==
    IF j > Len(entity) THEN <<>>
    ELSE LET key == entity[j].key
             raw == Lookup(data, key)
             value == IF entity[j].using # <<>>
                      THEN IF raw.t = "undefined" THEN JUndefined
                           ELSE EntityRepresent(entity[j].using[1], raw)
                      ELSE raw
         IN  (IF value.t = "undefined" THEN <<>> ELSE <<[k |-> key, v |-> value]>>)
             \o EntityRulesFrom(entity, data, j + 1)

\* a representation that keeps the empty elements of a sequence
EntityRepresent_KeepsEmpty(entity, data) ==
    IF data.t = "array"
    THEN JArray([i \in 1..Len(data.items) |-> EntityRepresent(entity, data.items[i])])
    ELSE IF data.t = "object" THEN JObject(EntityRulesFrom(entity, data, 1))
    ELSE data

EntityRepresent(entity, data) ==
    IF data.t = "array"
    THEN JArray(SelectSeq([i \in 1..Len(data.items) |-> EntityRepresent(entity, data.items[i])],
                          LAMBDA v : ~IsEmptyValue(v)))
    ELSE IF data.t = "object" THEN JObject(EntityRulesFrom(entity, data, 1))
    ELSE data

-----------------------------------------------------------------------------
(* Options *)

\* options as the caller passes them; a caller may pass a non-object
Options(entities, withs, usings, flags) ==
    {[isObject |-> TRUE, entity |-> e, with |-> w, using |-> u,
      shallow |-> f[1], safe |-> f[2], entityRoot |-> FALSE] :
        e \in entities, w \in withs, u \in usings, f \in flags}

\* {}
EmptyOptions ==
    [isObject |-> TRUE, entity |-> <<>>, with |-> <<>>, using |-> <<>>,
     shallow |-> FALSE, safe |-> "unset", entityRoot |-> FALSE]

NotAnObject == [EmptyOptions EXCEPT !.isObject = FALSE]

\* isObject(options) ? options : {}
EnsureObject(options) == IF options.isObject THEN options ELSE EmptyOptions

\* extend({ safe: false }, opts): the caller's own safe wins
ExtendSafeFalse(opts) ==
    IF opts.safe = "unset" THEN [opts EXCEPT !.safe = "false"] ELSE opts

\* a || b for optional entities
Or(a, b) == IF a # <<>> THEN a ELSE b

-----------------------------------------------------------------------------
(* part_001: represent *)

Outcome(status, value, calls) == [status |-> status, value |-> value, calls |-> calls]

\* a represent that falls back to the host's toJSON when no entity is given
Model_represent_FailOpen(this, entity, options, safeMode) ==
    IF entity = <<>>
    THEN Outcome("returned", BaseToJSON(this, options.shallow), <<"toJSON">>)
    ELSE LET checked == safeMode /\ ~options.shallow
             check == IF checked THEN performSafetyCheck(entity[1], this) ELSE <<>>
             calls == IF checked THEN <<"performSafetyCheck">> ELSE <<>>
         IN  IF check # <<>>
             THEN Outcome("thrown", UnsafeRelationError(check[1]), calls)
             ELSE Outcome("returned",
                          EntityRepresent(entity[1], BaseToJSON(this, options.shallow)),
                          calls \o <<"toJSON", "entity.represent">>)

\* a represent whose check is skipped when options.safe is false
Model_represent_SafeOption(this, entity, options, safeMode) ==
    IF entity = <<>> THEN Outcome("returned", JUndefined, <<>>)
    ELSE LET checked == safeMode /\ ~options.shallow /\ options.safe # "false"
             check == IF checked THEN performSafetyCheck(entity[1], this) ELSE <<>>
             calls == IF checked THEN <<"performSafetyCheck">> ELSE <<>>
         IN  IF check # <<>>
             THEN Outcome("thrown", UnsafeRelationError(check[1]), calls)
             ELSE Outcome("returned",
                          EntityRepresent(entity[1], BaseToJSON(this, options.shallow)),
                          calls \o <<"toJSON", "entity.represent">>)

\* Model.represent(entity, options) on this
Model_represent(this, entity, options, safeMode) ==
    IF entity = <<>> THEN Outcome("returned", JUndefined, <<>>)
    ELSE LET checked == safeMode /\ ~options.shallow
             check == IF checked THEN performSafetyCheck(entity[1], this) ELSE <<>>
             calls == IF checked THEN <<"performSafetyCheck">> ELSE <<>>
         IN  IF check # <<>>
             THEN Outcome("thrown", UnsafeRelationError(check[1]), calls)
             ELSE Outcome("returned",
                          EntityRepresent(entity[1], BaseToJSON(this, options.shallow)),
                          calls \o <<"toJSON", "entity.represent">>)

\* this.models.forEach(model => performSafetyCheck(entity, model))
RECURSIVE CheckModelsFrom(_, _, _)
CheckModelsFrom(entity, models, i) ==
    IF i > Len(models) THEN <<>>
    ELSE LET check == performSafetyCheck(entity, models[i])
         IN  IF check # <<>> THEN check ELSE CheckModelsFrom(entity, models, i + 1)

\* Collection.represent(entity, options) on this
Collection_represent(this, entity, options, safeMode) ==
    IF entity = <<>> THEN Outcome("returned", JArray(<<>>), <<>>)
    ELSE LET checked == safeMode /\ ~options.shallow
             check == IF checked THEN CheckModelsFrom(entity[1], this.models, 1) ELSE <<>>
             calls == IF checked /\ this.models # <<>>
                      THEN <<"performSafetyCheck">> ELSE <<>>
         IN  IF check # <<>>
             THEN Outcome("thrown", UnsafeRelationError(check[1]), calls)
             ELSE Outcome("returned",
                          EntityRepresent(entity[1], BaseToJSON(this, options.shallow)),
                          calls \o <<"toJSON", "entity.represent">>)

-----------------------------------------------------------------------------
(* The host's load *)

\* what the host materializes for a relation that was not loaded
Fresh(key) == IF key \in ToMany THEN Collection(<<Bare(Keys)>>) ELSE Bare(Keys)

\* obj with the relations along path loaded; Undefined when the host fails
\* because a key of the path is no relation of the model it is reached on
RECURSIVE LoadPath(_, _)
LoadPath(obj, path) ==
    IF obj.kind = "collection"
    THEN LET loaded == [i \in 1..Len(obj.models) |-> LoadPath(obj.models[i], path)]
         IN  IF \E i \in 1..Len(loaded) : loaded[i].kind = "undefined"
             THEN Undefined
             ELSE Collection(loaded)
    ELSE LET key == Head(path)
             sub == IF key \in DOMAIN obj.rel THEN obj.rel[key] ELSE Fresh(key)
             below == IF Len(path) = 1 THEN sub ELSE LoadPath(sub, Tail(path))
         IN  IF key \notin obj.has \/ below.kind = "undefined"
             THEN Undefined
             ELSE [obj EXCEPT !.rel = [k \in DOMAIN obj.rel \cup {key} |->
                                          IF k = key THEN below ELSE obj.rel[k]]]

\* load(relations)
RECURSIVE HostLoad(_, _)
HostLoad(obj, paths) ==
    IF paths = <<>> \/ obj.kind = "undefined" THEN obj
    ELSE HostLoad(LoadPath(obj, Head(paths)), Tail(paths))

-----------------------------------------------------------------------------
(* State *)

\* options is the caller's options object as passed, after is the same
\* object when the invocation has returned
Invocation(op, options, after, entity) ==
    [op |-> op, options |-> options, after |-> after, entity |-> entity]

NoInvocation == Invocation("none", EmptyOptions, EmptyOptions, <<>>)
NoResult == [status |-> "none", value |-> JUndefined]
Settled(status, value) == [status |-> status, value |-> value]

\* shallow and safe as callers pass them
Flags == {<<FALSE, "unset">>, <<TRUE, "unset">>, <<FALSE, "false">>, <<FALSE, "true">>}

\* entities a class declares as its defaultEntity
DefaultEntities == {LeafEntity \o <<Using("a", LeafEntity)>>}
\* entities callers pass as options.with and options.using
WithEntities == {LeafEntity \o <<Plain("a")>>}
UsingEntities == {LeafEntity \o <<Using("b", LeafEntity)>>}

RepresentOptions == Options({<<>>}, {<<>>}, {<<>>}, Flags)

DefaultFlags == {<<FALSE, "unset">>}

PresentOptions ==
    Options(Opt(RootEntities), {<<>>}, {<<>>}, Flags)
    \cup Options(Opt(RootEntities), Opt(WithEntities), Opt(UsingEntities), DefaultFlags)
    \cup {NotAnObject}

\* no second invocation yet; initial is the object of the first invocation
\* as it is before any load
OtherIdle(initial) ==
    [initial |-> initial, pc |-> "idle", object |-> Undefined, start |-> Undefined,
     entity |-> <<>>, relations |-> <<>>, result |-> NoResult]

Init ==
    /\ object \in Objects
    /\ defaultEntity \in Opt(DefaultEntities)
    /\ entitySafeMode \in BOOLEAN
    /\ pc = "idle"
    /\ inv = NoInvocation
    /\ relations = <<>>
    /\ result = NoResult
    /\ trace = <<>>
    /\ other = OtherIdle(object)

-----------------------------------------------------------------------------
(* part_001: the synchronous operations *)

\* model.represent(entity, options)
ModelRepresent ==
    /\ pc = "idle"
    /\ object.kind = "model"
    /\ \E entity \in Opt(RootEntities), options \in RepresentOptions :
          LET o == Model_represent(object, entity, options, entitySafeMode)
          IN  /\ inv' = Invocation("represent", options, options, entity)
              /\ result' = Settled(o.status, o.value)
              /\ trace' = o.calls
    /\ relations' = <<>>
    /\ pc' = "done"
    /\ UNCHANGED <<object, defaultEntity, entitySafeMode, other>>

\* collection.represent(entity, options)
CollectionRepresent ==
    /\ pc = "idle"
    /\ object.kind = "collection"
    /\ \E entity \in Opt(RootEntities), options \in RepresentOptions :
          LET o == Collection_represent(object, entity, options, entitySafeMode)
          IN  /\ inv' = Invocation("represent", options, options, entity)
              /\ result' = Settled(o.status, o.value)
              /\ trace' = o.calls
    /\ relations' = <<>>
    /\ pc' = "done"
    /\ UNCHANGED <<object, defaultEntity, entitySafeMode, other>>

-----------------------------------------------------------------------------
(* part_001: present and render *)

\* the sources of the entity taken in the reverse order
PresentEntity_UsingFirst(opts, default) ==
    Or(opts.using, Or(opts.with, Or(opts.entity, default)))

\* opts.entity || opts.with || opts.using || defaultEntity
PresentEntity(opts, default) ==
    Or(opts.entity, Or(opts.with, Or(opts.using, default)))

\* the synchronous part of present(options): the entity is resolved and a
\* promise is returned; detection is left to a promise callback
Present(options, empty) ==
    LET opts == EnsureObject(options)
        entity == PresentEntity(opts, defaultEntity)
    IN  /\ inv' = Invocation("present", options, options, entity)
        /\ IF entity = <<>> \/ empty
           THEN /\ pc' = "done"
                /\ result' = Settled("resolved",
                                     IF object.kind = "model" THEN JUndefined
                                     ELSE JArray(<<>>))
           ELSE /\ pc' = "scheduled"
                /\ result' = Settled("pending", JUndefined)
        /\ trace' = <<>>
        /\ relations' = <<>>
        /\ UNCHANGED <<object, defaultEntity, entitySafeMode, other>>

\* model.present(options)
ModelPresent ==
    /\ pc = "idle"
    /\ object.kind = "model"
    /\ \E options \in PresentOptions : Present(options, FALSE)

\* model.render(options): return this.present(options)
ModelRender == ModelPresent

\* collection.present(options); !this.size() resolves to []
CollectionPresent ==
    /\ pc = "idle"
    /\ object.kind = "collection"
    /\ \E options \in PresentOptions : Present(options, object.models = <<>>)

\* collection.render(options)
CollectionRender == CollectionPresent

\* a first callback that calls load and represents without waiting for it
PresentLoad_NoAwait(first) ==
    LET detected == detectRelationsToLoad(inv.entity, first, <<>>)
        opts == ExtendSafeFalse(EnsureObject(inv.options))
        o == IF object.kind = "model"
             THEN Model_represent(object, inv.entity, opts, entitySafeMode)
             ELSE Collection_represent(object, inv.entity, opts, entitySafeMode)
    IN  /\ pc' = "done"
        /\ IF detected.threw # ""
           THEN /\ result' = Settled("rejected", TypeError)
                /\ trace' = trace \o <<"detectRelationsToLoad">>
                /\ relations' = <<>>
           ELSE /\ relations' = detected.paths
                /\ trace' = trace \o <<"detectRelationsToLoad", "load">> \o o.calls
                /\ result' = Settled(IF o.status = "thrown" THEN "rejected" ELSE "resolved",
                                     o.value)
        /\ UNCHANGED <<object, defaultEntity, entitySafeMode, other, inv>>

\* the first then-callback: detectRelationsToLoad and this.load(relations);
\* relations is an array, hence truthy, so load is always called
PresentLoad(first) ==
    LET detected == detectRelationsToLoad(inv.entity, first, <<>>)
    IN  /\ IF detected.threw # ""
           THEN /\ pc' = "done"
                /\ result' = Settled("rejected", TypeError)
                /\ trace' = trace \o <<"detectRelationsToLoad">>
                /\ relations' = <<>>
           ELSE /\ pc' = "loading"
                /\ relations' = detected.paths
                /\ trace' = trace \o <<"detectRelationsToLoad", "load">>
                /\ UNCHANGED result
        /\ UNCHANGED <<object, defaultEntity, entitySafeMode, other, inv>>

ModelPresentLoad ==
    /\ pc = "scheduled"
    /\ object.kind = "model"
    /\ PresentLoad(object)

\* a first callback that detects on the last model of the collection
CollectionPresentLoad_Last ==
    /\ pc = "scheduled"
    /\ object.kind = "collection"
    /\ PresentLoad(object.models[Len(object.models)])

\* detectRelationsToLoad(entity, this.first())
CollectionPresentLoad ==
    /\ pc = "scheduled"
    /\ object.kind = "collection"
    /\ PresentLoad(object.models[1])

\* the host's load resolves: the relations are materialized on the object
HostLoadResolves ==
    /\ pc = "loading"
    /\ HostLoad(object, relations).kind # "undefined"
    /\ object' = HostLoad(object, relations)
    /\ pc' = "loaded"
    /\ trace' = trace \o <<"load resolved">>
    /\ UNCHANGED <<defaultEntity, entitySafeMode, other, inv, relations, result>>

\* a rejection of load that is caught, the pipeline going on to represent
HostLoadRejects_Swallowed ==
    /\ pc = "loading"
    /\ \E e \in HostLoadErrors : trace' = trace \o <<"load rejected", e>>
    /\ pc' = "loaded"
    /\ UNCHANGED <<object, defaultEntity, entitySafeMode, other, inv, relations, result>>

\* the host's load fails with error e: neither then-callback handles a
\* rejection, so the promise present returned is rejected with e
HostLoadRejects ==
    /\ pc = "loading"
    /\ \E e \in HostLoadErrors :
          /\ result' = Settled("rejected", HostLoadError(e))
          /\ trace' = trace \o <<"load rejected", e>>
    /\ pc' = "done"
    /\ UNCHANGED <<object, defaultEntity, entitySafeMode, other, inv, relations>>

\* the second then-callback: this.represent(entity, extend({ safe: false }, opts))
PresentRepresent(o) ==
    /\ pc' = "done"
    /\ result' = Settled(IF o.status = "thrown" THEN "rejected" ELSE "resolved", o.value)
    /\ trace' = trace \o o.calls
    /\ UNCHANGED <<object, defaultEntity, entitySafeMode, other, inv, relations>>

ModelPresentRepresent ==
    /\ pc = "loaded"
    /\ object.kind = "model"
    /\ PresentRepresent(Model_represent(object, inv.entity,
                                        ExtendSafeFalse(EnsureObject(inv.options)),
                                        entitySafeMode))

CollectionPresentRepresent ==
    /\ pc = "loaded"
    /\ object.kind = "collection"
    /\ PresentRepresent(Collection_represent(object, inv.entity,
                                             ExtendSafeFalse(EnsureObject(inv.options)),
                                             entitySafeMode))

-----------------------------------------------------------------------------
(* part_001: a second model.present(options) on another model while the   *)
(* first is in flight.  The caller passes the same options object, so both *)
(* invocations resolve the same entity.                                    *)

\* the models the second invocation is made on
OtherModels ==
    {Bare(Keys),
     Model(Keys, [k \in {"a"} |-> Bare(Keys)]),
     Model({"a"}, [k \in {"a"} |-> Bare({})])}

\* the synchronous part of the second present(options)
OtherModelPresent ==
    /\ other.pc = "idle"
    /\ inv.op = "present"
    /\ pc \in {"scheduled", "loading", "loaded"}
    /\ \E m \in OtherModels :
          LET entity == PresentEntity(EnsureObject(inv.after), defaultEntity)
          IN  other' = [other EXCEPT
                          !.object = m,
                          !.start = m,
                          !.entity = entity,
                          !.pc = IF entity = <<>> THEN "done" ELSE "scheduled",
                          !.result = IF entity = <<>>
                                     THEN Settled("resolved", JUndefined)
                                     ELSE Settled("pending", JUndefined)]
    /\ UNCHANGED <<object, defaultEntity, entitySafeMode, pc, inv, relations, result, trace>>

\* a first callback that keeps the detected relations in a list shared by
\* the invocations
OtherModelPresentLoad_SharedRelations ==
    /\ other.pc = "scheduled"
    /\ LET detected == detectRelationsToLoad(other.entity, other.object, <<>>)
       IN  other' = IF detected.threw # ""
                    THEN [other EXCEPT !.pc = "done",
                                       !.result = Settled("rejected", TypeError)]
                    ELSE [other EXCEPT !.pc = "loading",
                                       !.relations = relations \o detected.paths]
    /\ UNCHANGED <<object, defaultEntity, entitySafeMode, pc, inv, relations, result, trace>>

\* the first then-callback of the second invocation
OtherModelPresentLoad ==
    /\ other.pc = "scheduled"
    /\ LET detected == detectRelationsToLoad(other.entity, other.object, <<>>)
       IN  other' = IF detected.threw # ""
                    THEN [other EXCEPT !.pc = "done",
                                       !.result = Settled("rejected", TypeError)]
                    ELSE [other EXCEPT !.pc = "loading",
                                       !.relations = detected.paths]
    /\ UNCHANGED <<object, defaultEntity, entitySafeMode, pc, inv, relations, result, trace>>

\* the host's load of the second invocation resolves
OtherLoadResolves ==
    /\ other.pc = "loading"
    /\ HostLoad(other.object, other.relations).kind # "undefined"
    /\ other' = [other EXCEPT !.object = HostLoad(other.object, other.relations),
                              !.pc = "loaded"]
    /\ UNCHANGED <<object, defaultEntity, entitySafeMode, pc, inv, relations, result, trace>>

\* the host's load of the second invocation fails with error e
OtherLoadRejects ==
    /\ other.pc = "loading"
    /\ \E e \in HostLoadErrors :
          other' = [other EXCEPT !.pc = "done",
                                 !.result = Settled("rejected", HostLoadError(e))]
    /\ UNCHANGED <<object, defaultEntity, entitySafeMode, pc, inv, relations, result, trace>>

\* the second then-callback of the second invocation
OtherModelPresentRepresent ==
    /\ other.pc = "loaded"
    /\ LET o == Model_represent(other.object, other.entity,
                                ExtendSafeFalse(EnsureObject(inv.after)),
                                entitySafeMode)
       IN  other' = [other EXCEPT
                        !.pc = "done",
                        !.result = Settled(IF o.status = "thrown" THEN "rejected"
                                           ELSE "resolved", o.value)]
    /\ UNCHANGED <<object, defaultEntity, entitySafeMode, pc, inv, relations, result, trace>>

-----------------------------------------------------------------------------
(* index.js (lines 115-284): toJSON patched on models and collections.    *)
(* The base toJSON of the host serializes every loaded relation and every  *)
(* model of a collection through its own, patched, toJSON.                 *)

Done(value, calls) == [threw |-> FALSE, value |-> value, calls |-> calls]
Threw(error, calls) == [threw |-> TRUE, value |-> error, calls |-> calls]

\* calls of the results rs[1..n], in order
RECURSIVE CallsUpTo(_, _)
CallsUpTo(rs, n) == IF n = 0 THEN <<>> ELSE CallsUpTo(rs, n - 1) \o rs[n].calls

\* the serializations rs made in turn: the first that throws ends them
InTurn(rs) ==
    LET thrown == {i \in 1..Len(rs) : rs[i].threw}
    IN  IF thrown = {} THEN Done([i \in 1..Len(rs) |-> rs[i].value], CallsUpTo(rs, Len(rs)))
        ELSE LET first == CHOOSE i \in thrown : \A j \in thrown : i <= j
             IN  Threw(rs[first].value, CallsUpTo(rs, first))

\* the inline check of represent: the first loaded relation that matches a
\* property without using, from relation i and property j on
RECURSIVE ExposedFrom(_, _, _, _)
ExposedFrom(entity, rels, i, j) ==
    IF i > Len(rels) THEN <<>>
    ELSE IF j > Len(entity) THEN ExposedFrom(entity, rels, i + 1, 1)
    ELSE IF rels[i] = entity[j].key /\ entity[j].using = <<>> THEN <<rels[i]>>
    ELSE ExposedFrom(entity, rels, i, j + 1)

\* this.models.forEach(...) around the inline check
RECURSIVE ExposedInModels(_, _, _)
ExposedInModels(entity, models, i) ==
    IF i > Len(models) THEN <<>>
    ELSE LET exposed == ExposedFrom(entity, RelationKeys(models[i]), 1, 1)
         IN  IF exposed # <<>> THEN exposed ELSE ExposedInModels(entity, models, i + 1)

RECURSIVE Index_Model_toJSON(_, _, _)
RECURSIVE Index_Collection_toJSON(_, _, _)
RECURSIVE Index_Model_represent(_, _, _, _)
RECURSIVE Index_Collection_represent(_, _, _, _)
RECURSIVE ModelBase_toJSON(_, _, _)
RECURSIVE CollectionBase_toJSON(_, _, _)

\* relation.toJSON(...), model.toJSON(...): dispatched on the receiver
Patched_toJSON(this, opts, copies) ==
    IF this.kind = "collection" THEN Index_Collection_toJSON(this, opts, copies)
    ELSE Index_Model_toJSON(this, opts, copies)

\* ModelBase.prototype.toJSON.call(this, options): the attributes and, unless
\* options.shallow, each loaded relation's toJSON.  The host hands the
\* relations either a copy of the options (copies) or the options object
\* itself; with the object itself, a flag set by one relation's toJSON is
\* seen by the next.
ModelBase_toJSON(this, opts, copies) ==
    LET rels == IF opts.shallow THEN <<>> ELSE RelationKeys(this)
        each == [i \in 1..Len(rels) |->
                   Patched_toJSON(this.rel[rels[i]],
                                  [opts EXCEPT !.shallow = FALSE,
                                               !.entityRoot = @ \/ (~copies /\ i > 1)],
                                  copies)]
        all == InTurn(each)
    IN  IF all.threw THEN all
        ELSE Done(JObject(AttributePairs
                          \o [i \in 1..Len(rels) |-> [k |-> rels[i], v |-> all.value[i]]]),
                  all.calls)

\* CollectionBase.prototype.toJSON.call(this, options): every model's toJSON
\* with the one options object, so a flag set by the first model's toJSON is
\* seen by the next
CollectionBase_toJSON(this, opts, copies) ==
    LET each == [i \in 1..Len(this.models) |->
                   Patched_toJSON(this.models[i],
                                  [opts EXCEPT !.entityRoot = @ \/ i > 1],
                                  copies)]
        all == InTurn(each)
    IN  IF all.threw THEN all ELSE Done(JArray(all.value), all.calls)

\* Model.represent of index.js
Index_Model_represent(this, entity, options, copies) ==
    IF entity = <<>> THEN Done(JUndefined, <<"represent">>)
    ELSE LET exposed == IF entitySafeMode /\ ~options.shallow
                        THEN ExposedFrom(entity[1], RelationKeys(this), 1, 1)
                        ELSE <<>>
             raw == ModelBase_toJSON(this, options, copies)
         IN  IF exposed # <<>>
             THEN Threw(UnsafeRelationError(exposed[1]), <<"represent">>)
             ELSE IF raw.threw THEN Threw(raw.value, <<"represent">> \o raw.calls)
             ELSE Done(EntityRepresent(entity[1], raw.value),
                       <<"represent">> \o raw.calls \o <<"entity.represent">>)

\* Collection.represent of index.js; filter(Boolean) drops the undefined
\* elements of the serialized collection
Index_Collection_represent(this, entity, options, copies) ==
    IF entity = <<>> THEN Done(JArray(<<>>), <<"represent">>)
    ELSE LET exposed == IF entitySafeMode /\ ~options.shallow
                        THEN ExposedInModels(entity[1], this.models, 1)
                        ELSE <<>>
             raw == CollectionBase_toJSON(this, options, copies)
         IN  IF exposed # <<>>
             THEN Threw(UnsafeRelationError(exposed[1]), <<"represent">>)
             ELSE IF raw.threw THEN Threw(raw.value, <<"represent">> \o raw.calls)
             ELSE Done(EntityRepresent(entity[1],
                                       JArray(SelectSeq(raw.value.items,
                                                        LAMBDA v : v.t # "undefined"))),
                       <<"represent">> \o raw.calls \o <<"entity.represent">>)

\* the tail of a call made from within f
After(f, r) == [r EXCEPT !.calls = <<f>> \o @]

\* Model.toJSON of index.js; opts is the options object, ensured
Index_Model_toJSON(this, opts, copies) ==
    IF ~opts.entityRoot
    THEN After("toJSON", Index_Model_represent(this, Or(opts.entity, defaultEntity),
                                               [opts EXCEPT !.entityRoot = TRUE], copies))
    ELSE After("toJSON", ModelBase_toJSON(this, opts, copies))

\* a collection toJSON left to the host: every model's toJSON is called with
\* the one options object (index.js, lines 1-113)
Index_Collection_toJSON_PerModel(this, opts, copies) ==
    After("toJSON", CollectionBase_toJSON(this, opts, copies))

\* Collection.toJSON of index.js
Index_Collection_toJSON(this, opts, copies) ==
    IF ~opts.entityRoot
    THEN After("toJSON", Index_Collection_represent(this, Or(opts.entity, defaultEntity),
                                                    [opts EXCEPT !.entityRoot = TRUE],
                                                    copies))
    ELSE After("toJSON", CollectionBase_toJSON(this, opts, copies))

\* options of the toJSON variant: entity, shallow and the guard flag, which a
\* caller's options object carries when it has been through toJSON before
IndexOptions(entities, roots) ==
    {[o EXCEPT !.entityRoot = r] :
        o \in Options(entities, {<<>>}, {<<>>}, {<<FALSE, "unset">>, <<TRUE, "unset">>}),
        r \in roots}

ToJSONOptions ==
    IndexOptions(Opt(RootEntities), BOOLEAN)
    \cup Options(Opt(RootEntities), Opt(WithEntities), Opt(UsingEntities), DefaultFlags)
    \cup {NotAnObject}

\* an invocation of the toJSON variant has returned or thrown
Returned(op, options, after, entity, r) ==
    /\ inv' = Invocation(op, options, after, entity)
    /\ result' = Settled(IF r.threw THEN "thrown" ELSE "returned", r.value)
    /\ trace' = r.calls
    /\ relations' = <<>>
    /\ pc' = "done"
    /\ UNCHANGED <<object, defaultEntity, entitySafeMode, other>>

\* model.toJSON(options)
IndexModelToJSON ==
    /\ pc = "idle"
    /\ object.kind = "model"
    /\ \E options \in ToJSONOptions,
          copies \in BOOLEAN :
          LET opts == EnsureObject(options)
          IN  Returned("toJSON", options,
                       IF options.isObject THEN [opts EXCEPT !.entityRoot = TRUE]
                       ELSE options,
                       IF opts.entityRoot THEN <<>> ELSE Or(opts.entity, defaultEntity),
                       Index_Model_toJSON(object, opts, copies))

\* collection.toJSON(options)
IndexCollectionToJSON ==
    /\ pc = "idle"
    /\ object.kind = "collection"
    /\ \E options \in ToJSONOptions,
          copies \in BOOLEAN :
          LET opts == EnsureObject(options)
          IN  Returned("toJSON", options,
                       IF options.isObject THEN [opts EXCEPT !.entityRoot = TRUE]
                       ELSE options,
                       IF opts.entityRoot THEN <<>> ELSE Or(opts.entity, defaultEntity),
                       Index_Collection_toJSON(object, opts, copies))

\* model.represent(entity, options) of index.js, called directly
IndexModelRepresent ==
    /\ pc = "idle"
    /\ object.kind = "model"
    /\ \E entity \in Opt(RootEntities), options \in IndexOptions({<<>>}, {FALSE}),
          copies \in BOOLEAN :
          Returned("index.represent", options, options, entity,
                   Index_Model_represent(object, entity, options, copies))

\* collection.represent(entity, options) of index.js, called directly
IndexCollectionRepresent ==
    /\ pc = "idle"
    /\ object.kind = "collection"
    /\ \E entity \in Opt(RootEntities), options \in IndexOptions({<<>>}, {FALSE}),
          copies \in BOOLEAN :
          Returned("index.represent", options, options, entity,
                   Index_Collection_represent(object, entity, options, copies))

-----------------------------------------------------------------------------
(* A second call with the same entity and the very same options object,    *)
(* once the first has returned or thrown                                  *)

\* model.represent(entity, options) of part_001, called again
ModelRepresentAgain ==
    /\ pc = "done"
    /\ inv.op = "represent"
    /\ object.kind = "model"
    /\ LET o == Model_represent(object, inv.entity, inv.after, entitySafeMode)
       IN  /\ result' = Settled(o.status, o.value)
           /\ trace' = o.calls
    /\ inv' = [inv EXCEPT !.op = "represent again"]
    /\ UNCHANGED <<object, defaultEntity, entitySafeMode, other, pc, relations>>

\* collection.represent(entity, options) of part_001, called again
CollectionRepresentAgain ==
    /\ pc = "done"
    /\ inv.op = "represent"
    /\ object.kind = "collection"
    /\ LET o == Collection_represent(object, inv.entity, inv.after, entitySafeMode)
       IN  /\ result' = Settled(o.status, o.value)
           /\ trace' = o.calls
    /\ inv' = [inv EXCEPT !.op = "represent again"]
    /\ UNCHANGED <<object, defaultEntity, entitySafeMode, other, pc, relations>>

\* model.toJSON(options) of index.js, called again: the options object is
\* as the first call left it
IndexModelToJSONAgain ==
    /\ pc = "done"
    /\ inv.op = "toJSON"
    /\ object.kind = "model"
    /\ \E copies \in BOOLEAN :
          Returned("toJSON again", inv.options, inv.after, inv.entity,
                   Index_Model_toJSON(object, EnsureObject(inv.after), copies))

\* collection.toJSON(options) of index.js, called again
IndexCollectionToJSONAgain ==
    /\ pc = "done"
    /\ inv.op = "toJSON"
    /\ object.kind = "collection"
    /\ \E copies \in BOOLEAN :
          Returned("toJSON again", inv.options, inv.after, inv.entity,
                   Index_Collection_toJSON(object, EnsureObject(inv.after), copies))

-----------------------------------------------------------------------------

Next ==
    \/ ModelRepresent
    \/ CollectionRepresent
    \/ ModelPresent
    \/ ModelRender
    \/ CollectionPresent
    \/ CollectionRender
    \/ ModelPresentLoad
    \/ CollectionPresentLoad
    \/ HostLoadResolves
    \/ HostLoadRejects
    \/ ModelPresentRepresent
    \/ CollectionPresentRepresent
    \/ IndexModelToJSON
    \/ IndexCollectionToJSON
    \/ IndexModelRepresent
    \/ IndexCollectionRepresent
    \/ ModelRepresentAgain
    \/ CollectionRepresentAgain
    \/ IndexModelToJSONAgain
    \/ IndexCollectionToJSONAgain

Spec == Init /\ [][Next]_vars

\* the models the first of two overlapping invocations is made on
PairModels ==
    {Bare(Keys),
     Model({"a"}, <<>>),
     Model(Keys, [k \in {"a"} |-> Bare(Keys)]),
     Model(Keys, [k \in {"b"} |-> Collection(<<Bare(Keys)>>)])}

\* two overlapping present invocations on two models
InitPair ==
    /\ Init
    /\ object \in PairModels

NextPair ==
    \/ ModelPresent
    \/ ModelRender
    \/ ModelPresentLoad
    \/ HostLoadResolves
    \/ HostLoadRejects
    \/ ModelPresentRepresent
    \/ OtherModelPresent
    \/ OtherModelPresentLoad
    \/ OtherLoadResolves
    \/ OtherLoadRejects
    \/ OtherModelPresentRepresent

SpecPair == InitPair /\ [][NextPair]_vars

-----------------------------------------------------------------------------
(* Properties *)

\* the invocation's options, ensured to be an object
InvOpts == EnsureObject(inv.options)

Called(f) == \E i \in 1..Len(trace) : trace[i] = f
Count(f) == Cardinality({i \in 1..Len(trace) : trace[i] = f})

IsUnsafeError(v) == v.t = "error" /\ v.name = "Error"

\* the entity has a property with key k and no using
Exposes(entity, k) ==
    \E j \in 1..Len(entity) : entity[j].key = k /\ entity[j].using = <<>>

\* the entity has a property with key k
Declares(entity, k) == \E j \in 1..Len(entity) : entity[j].key = k

\* the models the safety check of represent is run on
CheckedModels ==
    IF object.kind = "model" THEN {object}
    ELSE {object.models[i] : i \in 1..Len(object.models)}

\* entitySafeMode && !options.shallow
CheckEnabled == entitySafeMode /\ ~InvOpts.shallow

\* the relations exposed without using on model or on a model below it that
\* is reached through single related models
RECURSIVE ExposedBelow(_, _)
ExposedBelow(entity, model) ==
    IF model.kind # "model" THEN {}
    ELSE {k \in DOMAIN model.rel : Exposes(entity, k)}
         \cup UNION {ExposedBelow(entity[j].using[1], model.rel[entity[j].key]) :
                       j \in {i \in 1..Len(entity) :
                                /\ entity[i].using # <<>>
                                /\ entity[i].key \in DOMAIN model.rel}}

\* the relations exposed without using on obj or below it, the elements of
\* related sequences included (section 4.4 of the specification)
RECURSIVE ExposedAnywhere(_, _)
ExposedAnywhere(entity, obj) ==
    IF obj.kind = "collection"
    THEN UNION {ExposedAnywhere(entity, obj.models[i]) : i \in 1..Len(obj.models)}
    ELSE {k \in DOMAIN obj.rel : Exposes(entity, k)}
         \cup UNION {ExposedAnywhere(entity[j].using[1], obj.rel[entity[j].key]) :
                       j \in {i \in 1..Len(entity) :
                                /\ entity[i].using # <<>>
                                /\ entity[i].key \in DOMAIN obj.rel}}

\* no entity is effective for the invocation
NoEntityEffective ==
    IF inv.op = "present"
    THEN /\ InvOpts.entity = <<>>
         /\ InvOpts.with = <<>>
         /\ InvOpts.using = <<>>
         /\ defaultEntity = <<>>
    ELSE inv.entity = <<>>

\* C1: with no effective entity, represent returns undefined (model) or an
\* empty sequence (collection) and present resolves to the same, at once,
\* whatever is loaded and whatever the options; neither the host's toJSON
\* nor the safety check nor load is called.
C1_FailClosed ==
    (inv.op \in {"represent", "present"} /\ NoEntityEffective) =>
        /\ pc = "done"
        /\ trace = <<>>
        /\ result.status = (IF inv.op = "present" THEN "resolved" ELSE "returned")
        /\ result.value = (IF object.kind = "model" THEN JUndefined ELSE JArray(<<>>))

C1_Witness ==
    /\ inv.op = "present"
    /\ NoEntityEffective
    /\ object.kind = "model"
    /\ DOMAIN object.rel = Keys
    /\ result = Settled("resolved", JUndefined)

\* C2: with the check enabled, represent on a model throws the
\* unsafe-relation error, naming an exposed relation and without reaching the
\* host's toJSON or the entity's represent, whenever a loaded relation of the
\* model has the key of a property without using; on a collection, whenever
\* one of its models has such a relation.  Loaded relations that match no
\* property never make it throw, and with shallow set or entitySafeMode off it
\* never throws.
C2_SafetyCheckTrigger ==
    (pc = "done" /\ inv.op = "represent" /\ inv.entity # <<>>) =>
        LET entity == inv.entity[1]
            exposed == \E m \in CheckedModels : \E k \in DOMAIN m.rel : Exposes(entity, k)
            matched == \E m \in CheckedModels : \E k \in DOMAIN m.rel : Declares(entity, k)
        IN  /\ (CheckEnabled /\ exposed) =>
                /\ result.status = "thrown"
                /\ IsUnsafeError(result.value)
                /\ result.value.relation \in UNION {ExposedBelow(entity, m) : m \in CheckedModels}
                /\ ~Called("toJSON")
                /\ ~Called("entity.represent")
            /\ ~matched => result.status = "returned"
            /\ ~CheckEnabled => result.status = "returned"

\* the second loaded relation is the exposed one, the first is covered by using
C2_Witness ==
    /\ pc = "done"
    /\ inv.op = "represent"
    /\ inv.entity # <<>>
    /\ object.kind = "model"
    /\ DOMAIN object.rel = Keys
    /\ ~Exposes(inv.entity[1], "a")
    /\ Declares(inv.entity[1], "a")
    /\ Exposes(inv.entity[1], "b")
    /\ result = Settled("thrown", UnsafeRelationError("b"))

\* C3: with the check enabled, represent throws the unsafe-relation error
\* for an exposed relation at any depth below the object, below a single
\* related model as well as on any element of a related sequence.
C3_RecursiveCheck ==
    (/\ pc = "done"
     /\ inv.op = "represent"
     /\ inv.entity # <<>>
     /\ CheckEnabled
     /\ ExposedAnywhere(inv.entity[1], object) # {}) =>
        /\ result.status = "thrown"
        /\ IsUnsafeError(result.value)

\* C4 as claimed: represent with options.safe false never throws the
\* unsafe-relation error, and present throws it only when its caller passes
\* safe true.
C4_SafeFalseDisablesCheck ==
    (/\ pc = "done"
     /\ inv.op \in {"represent", "present"}
     /\ IF inv.op = "present" THEN InvOpts.safe # "true" ELSE InvOpts.safe = "false") =>
        ~IsUnsafeError(result.value)

\* C4, amended: options.safe has no part in the safety check.  Whatever
\* options.safe is, represent (called directly, or by present once load has
\* resolved) throws the unsafe-relation error exactly when entitySafeMode is
\* on, options.shallow is not set and a relation is exposed without using on
\* the object or below it through single related models.
C4_SafeIgnoredByCheck ==
    (/\ pc = "done"
     /\ inv.entity # <<>>
     /\ \/ inv.op = "represent"
        \/ inv.op = "present" /\ Called("load resolved")) =>
        (IsUnsafeError(result.value)
            <=> /\ CheckEnabled
                /\ \E m \in CheckedModels : ExposedBelow(inv.entity[1], m) # {})

C4_Witness ==
    /\ pc = "done"
    /\ inv.op = "represent"
    /\ InvOpts.safe = "false"
    /\ IsUnsafeError(result.value)

\* the object detectRelationsToLoad is called with
Detectee == IF object.kind = "model" THEN object ELSE object.models[1]

\* the paths section 4.5 of the specification asks for: for every rule with
\* using, prefix+key when the relation is not loaded on the object of that
\* level and the object has the key, and the paths of the nested entity on
\* the loaded related object (or none) below prefix+key
RECURSIVE MissingPaths(_, _, _)
MissingPaths(entity, obj, prefix) ==
    UNION {(IF ~HasRelation(obj, entity[j].key) /\ Member(obj, entity[j].key)
            THEN {prefix \o <<entity[j].key>>}
            ELSE {})
           \cup MissingPaths(entity[j].using[1],
                             IF HasRelation(obj, entity[j].key)
                             THEN obj.rel[entity[j].key]
                             ELSE Undefined,
                             prefix \o <<entity[j].key>>) :
           j \in {i \in 1..Len(entity) : entity[i].using # <<>>}}

\* C5: detectRelationsToLoad returns exactly the paths prefix+key of the
\* rules with using, at any nesting level, whose relation is not loaded on
\* the object of that level and whose key the object has; loaded relations
\* and rules without using contribute nothing.
C5_DetectMissing ==
    (inv.op = "present" /\ Called("detectRelationsToLoad")) =>
        /\ result.value # TypeError
        /\ pc = "loading" =>
              {relations[i] : i \in 1..Len(relations)}
                  = MissingPaths(inv.entity[1], Detectee, <<>>)

\* the place of a call in the pipeline of present
Rank(f) ==
    CASE f = "detectRelationsToLoad" -> 1
      [] f = "load" -> 2
      [] f \in {"load resolved", "load rejected"} -> 3
      [] f \in HostLoadErrors -> 4
      [] f = "performSafetyCheck" -> 5
      [] f = "toJSON" -> 6
      [] f = "entity.represent" -> 7

\* detection, then load with the detected paths, then (only once load has
\* resolved) the safety check, then the representation; a relation exposed
\* without using on the loaded object rejects the promise with no output
PresentPipeline ==
    inv.op = "present" =>
        /\ \A i, j \in 1..Len(trace) : i < j => Rank(trace[i]) < Rank(trace[j])
        /\ Called("load") => Called("detectRelationsToLoad")
        /\ Called("load resolved") => Called("load")
        /\ (Called("performSafetyCheck") \/ Called("toJSON") \/ Called("entity.represent"))
              => Called("load resolved")
        /\ pc = "loading" =>
              relations = detectRelationsToLoad(inv.entity, Detectee, <<>>).paths
        /\ (/\ pc = "done"
            /\ Called("load resolved")
            /\ CheckEnabled
            /\ \E m \in CheckedModels : \E k \in DOMAIN m.rel : Exposes(inv.entity[1], k)) =>
               /\ result.status = "rejected"
               /\ IsUnsafeError(result.value)
               /\ ~Called("entity.represent")

\* C6 as claimed: the pipeline order holds and the invocation is suspended
\* at the load operation only.
C6_LoadOnlySuspension ==
    /\ PresentPipeline
    /\ result.status = "pending" => pc \in {"loading", "loaded"}

\* C6, amended: the pipeline order holds; the invocation is suspended twice,
\* first when present returns, before detection has run (detection is a
\* promise callback), then at the load operation.
C6_PipelineOrder ==
    /\ PresentPipeline
    /\ result.status = "pending" <=> pc \in {"scheduled", "loading", "loaded"}
    /\ pc = "scheduled" => trace = <<>>
    /\ pc \in {"loading", "loaded"} => Called("load")

\* load has resolved and the loaded object exposes a relation without using
C6_Witness ==
    /\ inv.op = "present"
    /\ pc = "done"
    /\ relations # <<>>
    /\ trace = <<"detectRelationsToLoad", "load", "load resolved", "performSafetyCheck">>
    /\ result.status = "rejected"

\* C7: when the host's load fails, the promise of present is rejected with
\* that very error, the safety check and the representation are not run,
\* there is no output, and load is called at most once per invocation.
C7_LoadErrorPropagates ==
    /\ Count("load") <= 1
    /\ Called("load rejected") =>
          /\ pc = "done"
          /\ result.status = "rejected"
          /\ result.value = HostLoadError(trace[Len(trace)])
          /\ ~Called("performSafetyCheck")
          /\ ~Called("toJSON")
          /\ ~Called("entity.represent")

C7_Witness ==
    /\ Called("load rejected")
    /\ relations # <<>>
    /\ object.kind = "collection"
    /\ result = Settled("rejected", HostLoadError("ER_NO_SUCH_TABLE"))

\* the first non-empty of options.entity, options.with, options.using, then
\* the defaultEntity
FirstGiven ==
    IF InvOpts.entity # <<>> THEN InvOpts.entity
    ELSE IF InvOpts.with # <<>> THEN InvOpts.with
    ELSE IF InvOpts.using # <<>> THEN InvOpts.using
    ELSE defaultEntity

\* options.entity, then the defaultEntity
EntityOrDefault == IF InvOpts.entity # <<>> THEN InvOpts.entity ELSE defaultEntity

\* what represent of part_001 yields on the object with entity e
Represented(e) ==
    IF object.kind = "model"
    THEN Model_represent(object, e, ExtendSafeFalse(InvOpts), entitySafeMode)
    ELSE Collection_represent(object, e, ExtendSafeFalse(InvOpts), entitySafeMode)

\* what represent of index.js yields on the object with entity e
IndexRepresented(e) ==
    IF object.kind = "model"
    THEN Index_Model_represent(object, e, [InvOpts EXCEPT !.entityRoot = TRUE], TRUE)
    ELSE Index_Collection_represent(object, e, [InvOpts EXCEPT !.entityRoot = TRUE], TRUE)

\* C8: present and render use the first non-empty of options.entity,
\* options.with, options.using and fall back to the defaultEntity; a
\* top-level toJSON uses options.entity, then the defaultEntity.  That entity
\* is the one relation detection, the safety check and the representation
\* of the invocation are run with.
C8_EntityResolution ==
    /\ inv.op = "present" =>
          /\ pc = "loading" =>
                relations = detectRelationsToLoad(FirstGiven, Detectee, <<>>).paths
          /\ (pc = "done" /\ Called("load resolved")) =>
                /\ result.value = Represented(FirstGiven).value
                /\ (result.status = "rejected") = (Represented(FirstGiven).status = "thrown")
          /\ (FirstGiven = <<>>) => (pc = "done" /\ trace = <<>>)
    /\ (inv.op = "toJSON" /\ ~InvOpts.entityRoot) =>
          /\ result.value = IndexRepresented(EntityOrDefault).value
          /\ (result.status = "thrown") = IndexRepresented(EntityOrDefault).threw

\* every source of the entity is given and they differ
C8_Witness ==
    /\ inv.op = "present"
    /\ pc = "done"
    /\ InvOpts.entity = <<>>
    /\ InvOpts.with # <<>>
    /\ InvOpts.using # <<>>
    /\ defaultEntity # <<>>
    /\ object.kind = "model"
    /\ DOMAIN object.rel = Keys
    /\ result.status = "rejected"
    /\ IsUnsafeError(result.value)

\* C9: within one top-level toJSON, or one represent called directly, on a
\* model, represent is applied exactly once, at the root: the nested toJSON
\* calls of the loaded relations see the guard flag and call no represent.
C9_RepresentOnceAtRoot ==
    (/\ pc = "done"
     /\ object.kind = "model"
     /\ \/ inv.op = "index.represent"
        \/ inv.op = "toJSON" /\ ~InvOpts.entityRoot) =>
        Count("represent") = 1

\* json holds only what the rules of entity emit: every property is declared
\* by a rule, and below a rule with using the same holds with its entity
RECURSIVE Shaped(_, _)
Shaped(entity, json) ==
    IF json.t = "array"
    THEN \A i \in 1..Len(json.items) : Shaped(entity, json.items[i])
    ELSE /\ json.t = "object"
         /\ \A i \in 1..Len(json.kv) :
               \E j \in 1..Len(entity) :
                   /\ entity[j].key = json.kv[i].k
                   /\ entity[j].using # <<>> => Shaped(entity[j].using[1], json.kv[i].v)

\* C10: a top-level toJSON on a collection applies the entity from the
\* collection level: every element of the output, the first and the later
\* ones, holds only properties emitted by the entity's rules, none is the raw
\* attributes of its model; with no effective entity the output is empty.
C10_CollectionFiltering ==
    (/\ pc = "done"
     /\ inv.op = "toJSON"
     /\ object.kind = "collection"
     /\ ~InvOpts.entityRoot) =>
        IF EntityOrDefault = <<>>
        THEN result = Settled("returned", JArray(<<>>))
        ELSE result.status = "returned" =>
                /\ result.value.t = "array"
                /\ Declares(EntityOrDefault[1], "id") =>
                      Len(result.value.items) = Len(object.models)
                /\ \A i \in 1..Len(result.value.items) :
                      /\ Shaped(EntityOrDefault[1], result.value.items[i])
                      /\ Lookup(result.value.items[i], "secret") = JUndefined

C10_Witness ==
    /\ pc = "done"
    /\ inv.op = "toJSON"
    /\ object.kind = "collection"
    /\ ~InvOpts.entityRoot
    /\ EntityOrDefault # <<>>
    /\ result.status = "returned"
    /\ Len(result.value.items) = MaxColl
    /\ \E i \in 1..Len(object.models) : DOMAIN object.models[i].rel # {}

\* the entity a finished invocation on a collection has represented it with
EffectiveEntity ==
    IF inv.op = "toJSON" THEN EntityOrDefault ELSE inv.entity

\* some rule of entity emits a property for model: a plain rule whose key
\* is an attribute or a loaded relation, a rule with using on a loaded
\* relation
Emits(entity, model, shallow) ==
    \E j \in 1..Len(entity) :
        IF entity[j].using = <<>>
        THEN \/ \E i \in 1..Len(AttrOrder) : AttrOrder[i] = entity[j].key
             \/ ~shallow /\ entity[j].key \in DOMAIN model.rel
        ELSE ~shallow /\ entity[j].key \in DOMAIN model.rel

\* the models of the collection whose representation holds a property
Showing(entity, shallow) ==
    {i \in 1..Len(object.models) : Emits(entity, object.models[i], shallow)}

\* the collection has been represented by a finished invocation
CollectionRepresented ==
    /\ pc = "done"
    /\ object.kind = "collection"
    /\ EffectiveEntity # <<>>
    /\ \/ inv.op = "represent" /\ result.status = "returned"
       \/ inv.op = "present" /\ result.status = "resolved"
       \/ inv.op = "toJSON" /\ ~InvOpts.entityRoot /\ result.status = "returned"

\* C11: a represented collection holds one entry per model whose
\* representation is not empty, in the order of the models: a model whose
\* rules all omit is removed, and no entry is undefined or empty.
C11_NoPlaceholders ==
    CollectionRepresented =>
        LET entity == EffectiveEntity[1]
            showing == Showing(entity, InvOpts.shallow)
            items == result.value.items
            kept == SelectSeq([i \in 1..Len(object.models) |-> i],
                              LAMBDA i : i \in showing)
        IN  /\ result.value.t = "array"
            /\ Len(items) = Cardinality(showing)
            /\ \A n \in 1..Len(items) :
                  /\ ~IsEmptyValue(items[n])
                  /\ items[n] = EntityRepresent(entity,
                                                BaseToJSON(object.models[kept[n]],
                                                           InvOpts.shallow))

\* the first model has nothing to show and is removed, the second is kept
C11_Witness ==
    /\ CollectionRepresented
    /\ Len(object.models) = 2
    /\ ~Emits(EffectiveEntity[1], object.models[1], InvOpts.shallow)
    /\ Emits(EffectiveEntity[1], object.models[2], InvOpts.shallow)
    /\ Len(result.value.items) = 1

\* C12: a second call of represent(entity, options) or of toJSON(options) on
\* the unchanged object, with the same entity and the very same options
\* object, yields what the first call yielded.
C12_Repeatable ==
    [][(inv.op \in {"represent", "toJSON"}
        /\ inv'.op \in {"represent again", "toJSON again"})
       => result' = result]_vars

\* what a present invocation has settled with once represent has returned o
SettledFrom(o) ==
    Settled(IF o.status = "thrown" THEN "rejected" ELSE "resolved", o.value)

\* the object model.present leaves when run alone on start and its load
\* resolves
LoadedAlone(entity, start) ==
    HostLoad(start, detectRelationsToLoad(entity, start, <<>>).paths)

\* the results model.present can settle with when run alone on start
ResultsAlone(entity, start, options) ==
    IF detectRelationsToLoad(entity, start, <<>>).threw # ""
    THEN {Settled("rejected", TypeError)}
    ELSE {Settled("rejected", HostLoadError(e)) : e \in HostLoadErrors}
         \cup (IF LoadedAlone(entity, start).kind = "undefined" THEN {}
               ELSE {SettledFrom(Model_represent(LoadedAlone(entity, start), entity,
                                                 ExtendSafeFalse(EnsureObject(options)),
                                                 entitySafeMode))})

\* C13: two present invocations on two models, sharing the entity and the
\* options object and interleaved in any way, each load what it loads when
\* run alone and settle with a result it settles with when run alone; the
\* shared options object and the entity are as the callers passed them.
C13_NonInterference ==
    inv.op = "present" =>
        /\ inv.after = inv.options
        /\ other.pc # "idle" => other.entity = inv.entity
        /\ pc \in {"scheduled", "loading"} => object = other.initial
        /\ pc = "loading" =>
              relations = detectRelationsToLoad(inv.entity, other.initial, <<>>).paths
        /\ pc = "loaded" => object = LoadedAlone(inv.entity, other.initial)
        /\ pc = "done" =>
              /\ object \in {other.initial, LoadedAlone(inv.entity, other.initial)}
              /\ result \in ResultsAlone(inv.entity, other.initial, inv.options)
        /\ other.pc = "scheduled" => other.object = other.start
        /\ other.pc = "loading" =>
              /\ other.object = other.start
              /\ other.relations
                    = detectRelationsToLoad(other.entity, other.start, <<>>).paths
        /\ other.pc = "loaded" => other.object = LoadedAlone(other.entity, other.start)
        /\ other.pc = "done" =>
              /\ other.object \in {other.start, LoadedAlone(other.entity, other.start)}
              /\ other.result \in ResultsAlone(other.entity, other.start, inv.options)

\* the second invocation has run from start to end, its own relations
\* loaded, while the first is suspended at its load
C13_Witness ==
    /\ pc = "loading"
    /\ relations # <<>>
    /\ other.pc = "done"
    /\ other.relations # <<>>
    /\ other.relations # relations
    /\ other.result.status = "resolved"
    /\ other.object # other.start

\* the relations along path are loaded on obj, one below the other
RECURSIVE ChainLoaded(_, _)
ChainLoaded(obj, path) ==
    IF path = <<>> THEN TRUE
    ELSE IF obj.kind = "collection"
    THEN \A i \in 1..Len(obj.models) : ChainLoaded(obj.models[i], path)
    ELSE /\ obj.kind = "model"
         /\ Head(path) \in DOMAIN obj.rel
         /\ ChainLoaded(obj.rel[Head(path)], Tail(path))

\* C14: every detected path below a parent has its parent among the detected
\* paths or loaded on the model, and no path is detected twice.
C14_ParentClosure ==
    (inv.op = "present" /\ pc = "loading") =>
        /\ \A i \in 1..Len(relations) :
              Len(relations[i]) > 1 =>
                  LET parent == SubSeq(relations[i], 1, Len(relations[i]) - 1)
                  IN  \/ \E j \in 1..Len(relations) : relations[j] = parent
                      \/ ChainLoaded(Detectee, parent)
        /\ \A i, j \in 1..Len(relations) : relations[i] = relations[j] => i = j

\* C15: collection.present detects the relations to load on the first model
\* of the collection only, whatever the other models have loaded; on an
\* empty collection it resolves to an empty sequence at once, with or without
\* an entity, and neither detection nor load nor represent is called.
C15_FirstElementOnly ==
    (inv.op = "present" /\ object.kind = "collection") =>
        /\ pc = "loading" =>
              /\ trace = <<"detectRelationsToLoad", "load">>
              /\ relations = detectRelationsToLoad(inv.entity, object.models[1], <<>>).paths
        /\ object.models = <<>> =>
              /\ pc = "done"
              /\ trace = <<>>
              /\ result = Settled("resolved", JArray(<<>>))

\* the second model lacks a relation that is loaded on the first: detection
\* on it would ask for more
C15_Witness ==
    /\ inv.op = "present"
    /\ object.kind = "collection"
    /\ pc = "loading"
    /\ Len(object.models) = 2
    /\ detectRelationsToLoad(inv.entity, object.models[2], <<>>).threw = ""
    /\ relations = <<>>
    /\ detectRelationsToLoad(inv.entity, object.models[2], <<>>).paths # <<>>

\* the depth of the using rules of entity, the entity itself counting one
RECURSIVE UsingDepth(_)
UsingDepth(entity) ==
    LET below == {UsingDepth(entity[j].using[1]) :
                    j \in {i \in 1..Len(entity) : entity[i].using # <<>>}}
    IN  IF below = {} THEN 0
        ELSE 1 + CHOOSE d \in below : \A e \in below : e <= d

\* the number of rules with using in entity and below it
RECURSIVE UsingCount(_, _)
UsingCount(entity, j) ==
    IF j > Len(entity) THEN 0
    ELSE (IF entity[j].using = <<>> THEN 0
          ELSE 1 + UsingCount(entity[j].using[1], 1))
         + UsingCount(entity, j + 1)

\* C16: detectRelationsToLoad returns a list for every state of the model, a
\* relation being loaded or not; the list has at most one path per rule with
\* using and no path is longer than the using rules of the entity are deep.
C16_DetectionTerminates ==
    (inv.op = "present" /\ Called("detectRelationsToLoad")) =>
        /\ result.value # TypeError
        /\ pc = "loading" =>
              /\ Len(relations) <= UsingCount(inv.entity[1], 1)
              /\ \A i \in 1..Len(relations) :
                    Len(relations[i]) <= UsingDepth(inv.entity[1])

====
